---- MODULE Spec2Model ----
(***************************************************************************)
(* Model of the faucet's disbursement engine (src/main.go).                *)
(*                                                                         *)
(* State: the cooldown table f.usedAddresses, the RWMutex f.mu (its        *)
(* readers, its writer and the readers asleep behind the writer), the wall *)
(* clock, the ledger node's view of the faucet account (pending nonce and  *)
(* the transactions it accepted) and, for every in-flight HTTP request,    *)
(* the position of its SendTokens call and that call's local variables.    *)
(*                                                                         *)
(* One unit of time is five seconds and the clock reads whole multiples of *)
(* ten seconds; f.cooldown is the wrapped int64 product of line 113        *)
(* and the wait the cooldown error carries is rounded to the minute.       *)
(* A ledger call that never returns is a call whose action never fires.    *)
(* Two handler goroutines serve the requests; every race the service has   *)
(* is a race between two calls. A goroutine that returned serves the next  *)
(* request, until MaxCalls calls were made.                                *)
(***************************************************************************)
EXTENDS Integers, Sequences, FiniteSets, TLC

\* ------------------------------------------------------------------ bounds
\* Number of SendTokens calls the model runs in all.
MaxCalls == 2
\* The clock stops advancing at this hour.
MaxTime == 3
\* COOLDOWN_HOURS as configured for the modelled run.
CooldownHours == 2
\* Settings of the environment and the node that differ from a working
\* configuration in one start of the process.
MaxSettings == 2

\* ------------------------------------------------------- library constants
\* common.AddressLength of go-ethereum: an address is 20 bytes.
AddressLength == 20
\* time.Minute and time.Hour, in units of five seconds.
Minute == 12
Hour == 60 * Minute

\* ------------------------------------------------------------ address text
\* Strings are sequences of one-character strings.
Rep(c, n) == [i \in 1..n |-> c]

LowerHex == <<"0","1","2","3","4","5","6","7","8","9","a","b","c","d","e","f">>
UpperHex == <<"0","1","2","3","4","5","6","7","8","9","A","B","C","D","E","F">>

\* The characters '0'-'9', 'a'-'f' and 'A'-'F'.
HexCharacters == {LowerHex[i] : i \in 1..16} \cup {UpperHex[i] : i \in 1..16}

\* common.isHexCharacter
isHexCharacter(c) == c \in HexCharacters

\* common.has0xPrefix
has0xPrefix(s) ==
    Len(s) >= 2 /\ s[1] = "0" /\ (s[2] = "x" \/ s[2] = "X")

\* common.isHex
isHex(s) ==
    /\ Len(s) % 2 = 0
    /\ \A i \in 1..Len(s) : isHexCharacter(s[i])

StripPrefix(s) == IF has0xPrefix(s) THEN SubSeq(s, 3, Len(s)) ELSE s

\* A validation that forgets the length test.
IsHexAddressAnyLength(s) == isHex(StripPrefix(s))

\* common.IsHexAddress, the test of line 119.
IsHexAddress(s) ==
    /\ Len(StripPrefix(s)) = 2 * AddressLength
    /\ isHex(StripPrefix(s))

\* The value of every hexadecimal digit, tabulated once.
HexValue ==
    [c \in {LowerHex[i] : i \in 1..16} \cup {UpperHex[i] : i \in 1..16} |->
        CHOOSE v \in 0..15 : LowerHex[v + 1] = c \/ UpperHex[v + 1] = c]

HexVal(c) == HexValue[c]

\* common.FromHex on a string of hex digits: prefix stripped, an odd number
\* of digits padded on the left, pairs of digits decoded to bytes.
FromHex(s) ==
    LET t == StripPrefix(s)
        u == IF Len(t) % 2 = 1 THEN <<"0">> \o t ELSE t
    IN  [i \in 1..(Len(u) \div 2) |-> 16 * HexVal(u[2 * i - 1]) + HexVal(u[2 * i])]

\* common.BytesToAddress: the last AddressLength bytes, right aligned.
BytesToAddress(b) ==
    LET c == IF Len(b) > AddressLength
             THEN SubSeq(b, Len(b) - AddressLength + 1, Len(b))
             ELSE b
    IN  [i \in 1..AddressLength |->
            IF i > AddressLength - Len(c) THEN c[i - (AddressLength - Len(c))] ELSE 0]

\* common.HexToAddress, lines 146 and 160: the account a request string denotes.
HexToAddress(s) == BytesToAddress(FromHex(s))

\* The request strings the HTTP layer hands to SendTokens.
AddrLower == <<"0", "x">> \o Rep("a", 2 * AddressLength)
AddrUpper == <<"0", "x">> \o Rep("A", 2 * AddressLength)
AddrBare  == Rep("a", 2 * AddressLength)
AddrOther == <<"0", "x">> \o Rep("b", 2 * AddressLength)
BadShort  == <<"0", "x">> \o Rep("a", 2 * AddressLength - 2)
BadChar   == <<"0", "x">> \o Rep("g", 2 * AddressLength)

Inputs == {AddrLower, AddrUpper, AddrBare, AddrOther, BadShort, BadChar}

\* common.HexToAddress of every request string that passes the validation of
\* line 119, tabulated once.
AccountOf == [s \in {a \in Inputs : IsHexAddress(a)} |-> HexToAddress(s)]

\* ------------------------------------------------------------------- state
Requests == {1, 2}
NoRequest == 0

VARIABLES
    now,            \* the wall clock          
    usedAddresses,  \* f.usedAddresses: request string -> time of last record
    readers,        \* requests holding f.mu for reading
    writer,         \* the request whose f.mu.Lock() excludes new readers: it
                    \* holds f.mu for writing or waits for the readers to leave
    blocked,        \* requests asleep in f.mu.RLock() behind that writer
    pendingNonce,   \* the node's pending nonce of the faucet account
    submitted,      \* the transactions the node accepted
    pc,             \* position of each request's SendTokens call
    toAddress,      \* SendTokens' parameter
    lastUsed,       \* local of SendTokens, line 125
    exists,         \* local of SendTokens, line 125
    nonce,          \* local of SendTokens, line 134
    result,         \* what SendTokens returned
    remaining,      \* the wait carried by the cooldown error, line 130
    checkTime,      \* clock reading of the comparison of line 128
    calls,          \* the ledger calls the request has made, in order
    started,        \* number of requests handled so far
    response,       \* the JSON body the handler answered with, lines 216-237
    phase,          \* where main is: "new", "created", "ready", "serving", "fatal"
    startErr,       \* the error NewFaucet returned, "none" without one
    balanceLog,     \* what main logged about the balance, lines 202-208
    cooldown        \* f.cooldown, line 113

vars == <<now, usedAddresses, readers, writer, blocked, pendingNonce, submitted,
          pc, toAddress, lastUsed, exists, nonce, result, remaining, checkTime,
          calls, started, response, phase, startErr, balanceLog, cooldown>>

mu == <<readers, writer, blocked>>
ledger == <<pendingNonce, submitted>>
frame == <<lastUsed, exists, nonce, checkTime>>
startup == <<phase, startErr, balanceLog, cooldown>>
history == <<started, startup>>

None == -1
NoString == <<>>
NoResponse == [status |-> 0, success |-> FALSE, message |-> "", tx_hash |-> NoString]

\* time.Since(t)
Since(t) == now - t

\* No request has arrived: the table of line 112 is empty and the lock free.
Quiet ==
    /\ now = 0
    /\ usedAddresses = <<>>
    /\ readers = {}
    /\ writer = NoRequest
    /\ blocked = {}
    /\ pendingNonce = 0
    /\ submitted = {}
    /\ pc = [p \in Requests |-> "idle"]
    /\ toAddress = [p \in Requests |-> NoString]
    /\ lastUsed = [p \in Requests |-> None]
    /\ exists = [p \in Requests |-> FALSE]
    /\ nonce = [p \in Requests |-> None]
    /\ result = [p \in Requests |-> "none"]
    /\ remaining = [p \in Requests |-> None]
    /\ checkTime = [p \in Requests |-> None]
    /\ calls = [p \in Requests |-> <<>>]
    /\ started = 0
    /\ response = [p \in Requests |-> NoResponse]

\* The service is up: NewFaucet returned a faucet with COOLDOWN_HOURS set to
\* CooldownHours, the balance was logged and the router listens.
Init ==
    /\ Quiet
    /\ phase = "serving"
    /\ startErr = "none"
    /\ balanceLog = "balance"
    /\ cooldown = CooldownHours * Hour

\* The instants at which the clock is read: the start of the run, twenty
\* seconds before the cooldown of an entry stamped at the start ends, the end
\* of that cooldown and the whole hours after it.
Instants ==
    {0, CooldownHours * Hour - Minute \div 3}
        \cup {h * Hour : h \in CooldownHours..MaxTime}

\* The clock advances on its own, to the next instant.
Tick ==
    /\ now < MaxTime * Hour
    /\ now' = CHOOSE t \in Instants :
                  t > now /\ \A u \in Instants : u > now => t <= u
    /\ UNCHANGED <<usedAddresses, mu, ledger, pc, toAddress, remaining, result,
                   response, frame, history, calls>>

\* The locals of a call that die with it: lastUsed, exists, nonce, and the
\* clock reading of its eligibility comparison.
SetFrame(p, lu, ex, n, ct) ==
    /\ lastUsed' = [lastUsed EXCEPT ![p] = lu]
    /\ exists' = [exists EXCEPT ![p] = ex]
    /\ nonce' = [nonce EXCEPT ![p] = n]
    /\ checkTime' = [checkTime EXCEPT ![p] = ct]

\* The transaction built at lines 158-165: recipient and nonce (amount, gas
\* and chain ID are the same for every transaction of a run).
Tx(p) == [to |-> AccountOf[toAddress[p]], nonce |-> nonce[p]]

\* tx.Hash().Hex(), line 236: "0x" and a digest that identifies the transaction.
TxHash(tx) == <<"0x", tx.to, tx.nonce>>

\* err.Error() of the errors of lines 120-176 (text before the first verb).
ErrorText(r) ==
    CASE r = "InvalidAddress" -> "invalid Ethereum address"
      [] r = "CooldownActive" -> "address %s can request again in %v"
      [] r = "NonceFetchFailed" -> "failed to get nonce: %v"
      [] r = "GasPriceFetchFailed" -> "failed to get gas price: %v"
      [] r = "GasEstimateFailed" -> "failed to estimate gas: %v"
      [] r = "SigningFailed" -> "failed to sign transaction: %v"
      [] r = "SubmissionFailed" -> "failed to send transaction: %v"

\* A handler that answers every outcome as a success.
RespondAlwaysSuccess(p, r) ==
    [status |-> 200, success |-> TRUE, message |-> "Tokens sent successfully!",
     tx_hash |-> IF r = "ok" THEN TxHash(Tx(p)) ELSE NoString]

\* Lines 225-237: the response to SendTokens' outcome r. A tx_hash of
\* NoString is the empty string, which omitempty leaves out of the body.
Respond(p, r) ==
    IF r = "ok"
    THEN [status |-> 200, success |-> TRUE, message |-> "Tokens sent successfully!",
          tx_hash |-> TxHash(Tx(p))]
    ELSE [status |-> 400, success |-> FALSE, message |-> ErrorText(r),
          tx_hash |-> NoString]

\* return: the call ends with r, its locals are gone and the handler answers.
Return(p, r) ==
    /\ pc' = [pc EXCEPT ![p] = "done"]
    /\ result' = [result EXCEPT ![p] = r]
    /\ response' = [response EXCEPT ![p] = Respond(p, r)]
    /\ SetFrame(p, None, FALSE, None, None)

Goto(p, l) ==
    /\ pc' = [pc EXCEPT ![p] = l]
    /\ UNCHANGED <<result, response>>

\* Lines 214-221: the body does not bind (no JSON, or no address in it);
\* SendTokens is not called.
BadRequest(p) ==
    /\ phase = "serving"
    /\ pc[p] \in {"idle", "done"}
    /\ \A q \in Requests : q < p => pc[q] # "idle"
    /\ started < MaxCalls
    /\ started' = started + 1
    /\ toAddress' = [toAddress EXCEPT ![p] = NoString]
    /\ remaining' = [remaining EXCEPT ![p] = None]
    /\ calls' = [calls EXCEPT ![p] = <<>>]
    /\ pc' = [pc EXCEPT ![p] = "done"]
    /\ result' = [result EXCEPT ![p] = "none"]
    /\ response' = [response EXCEPT ![p] =
                      [status |-> 400, success |-> FALSE,
                       message |-> "Invalid request format", tx_hash |-> NoString]]
    /\ SetFrame(p, None, FALSE, None, None)
    /\ UNCHANGED <<now, usedAddresses, mu, ledger, startup>>

\* Lines 213-224 and 117-121: a handler goroutine takes a request and calls
\* SendTokens(a), which validates the address first. Goroutines are
\* interchangeable, so the second one serves its first request after the
\* first one did.
Validate(p, a) ==
    /\ phase = "serving"
    /\ pc[p] \in {"idle", "done"}
    /\ \A q \in Requests : q < p => pc[q] # "idle"
    /\ started < MaxCalls
    /\ started' = started + 1
    /\ toAddress' = [toAddress EXCEPT ![p] = a]
    /\ remaining' = [remaining EXCEPT ![p] = None]
    /\ calls' = [calls EXCEPT ![p] = <<>>]
    /\ IF ~IsHexAddress(a)
       THEN Return(p, "InvalidAddress")
       ELSE /\ pc' = [pc EXCEPT ![p] = "rlock"]
            /\ result' = [result EXCEPT ![p] = "none"]
            /\ response' = [response EXCEPT ![p] = NoResponse]
            /\ SetFrame(p, None, FALSE, None, None)
    /\ UNCHANGED <<now, usedAddresses, mu, ledger, startup>>

\* Line 124, f.mu.RLock() while a writer holds f.mu or waits for it
\* (sync.RWMutex.RLock: readerCount.Add(1) < 0): the call sleeps on the
\* reader semaphore until that writer unlocks.
RLockWait(p) ==
    /\ pc[p] = "rlock"
    /\ p \notin readers \cup blocked
    /\ writer # NoRequest
    /\ blocked' = blocked \cup {p}
    /\ UNCHANGED <<now, usedAddresses, readers, writer, ledger, pc, toAddress,
                   remaining, frame, result, response, history, calls>>

\* Line 124: f.mu.RLock() returns, at once when no writer holds f.mu or waits
\* for it, and after the writer's Unlock for a call that slept.
RLock(p) ==
    /\ pc[p] = "rlock"
    /\ \/ p \in readers
       \/ p \notin blocked /\ writer = NoRequest
    /\ readers' = readers \cup {p}
    /\ Goto(p, "read")
    /\ UNCHANGED <<now, usedAddresses, writer, blocked, ledger, toAddress, remaining,
                   frame, history, calls>>

\* The key under which SendTokens looks a request string up, lines 125 and 181.
TableKey(s) == s

\* A lookup that keeps the read lock through the rest of the call.
ReadTableKeepsLock(p) ==
    /\ pc[p] = "read"
    /\ p \in readers
    /\ LET k == TableKey(toAddress[p]) IN
        IF k \in DOMAIN usedAddresses
        THEN SetFrame(p, usedAddresses[k], TRUE, nonce[p], checkTime[p])
        ELSE SetFrame(p, None, FALSE, nonce[p], checkTime[p])
    /\ Goto(p, "check")
    /\ UNCHANGED <<now, usedAddresses, mu, ledger, toAddress, remaining,
                   history, calls>>

\* Lines 125-126: lastUsed, exists := f.usedAddresses[toAddress]; f.mu.RUnlock()
ReadTable(p) ==
    /\ pc[p] = "read"
    /\ p \in readers
    /\ LET k == TableKey(toAddress[p]) IN
        IF k \in DOMAIN usedAddresses
        THEN SetFrame(p, usedAddresses[k], TRUE, nonce[p], checkTime[p])
        ELSE SetFrame(p, None, FALSE, nonce[p], checkTime[p])
    /\ readers' = readers \ {p}
    /\ Goto(p, "check")
    /\ UNCHANGED <<now, usedAddresses, writer, blocked, ledger, toAddress, remaining,
                   history, calls>>

\* An eligibility test that lets a request through one hour early.
InCooldownOffByOne(p) == exists[p] /\ Since(lastUsed[p]) < cooldown - Hour

\* The condition of line 128.
InCooldown(p) == exists[p] /\ Since(lastUsed[p]) < cooldown

\* Line 128: if exists && time.Since(lastUsed) < f.cooldown
Check(p) ==
    /\ pc[p] = "check"
    /\ SetFrame(p, lastUsed[p], exists[p], nonce[p], now)
    /\ IF InCooldown(p) THEN Goto(p, "remaining") ELSE Goto(p, "nonce")
    /\ UNCHANGED <<now, usedAddresses, mu, ledger, toAddress, remaining, history, calls>>

\* d % m of Go: the remainder has the sign of d.
Rem(d, m) == IF d >= 0 THEN d % m ELSE 0 - ((0 - d) % m)

\* The largest and the least time.Duration, 1<<63 - 1 and -1<<63 nanoseconds:
\* neither is a multiple of ten seconds.
MaxDuration == 1844674407
MinDuration == 0 - MaxDuration

\* time.Duration.Round(m): d to the nearest multiple of m, halfway values
\* away from zero, and the largest or least duration when that multiple is
\* beyond an int64.
Round(d, m) ==
    IF m <= 0 THEN d
    ELSE LET r == Rem(d, m) IN
         IF d < 0
         THEN IF (0 - r) + (0 - r) < m THEN d - r
              ELSE IF d - m - r >= MinDuration THEN d - m - r ELSE MinDuration
         ELSE IF r + r < m THEN d - r
              ELSE IF d + m - r <= MaxDuration THEN d + m - r ELSE MaxDuration

\* Lines 129-130: remaining := f.cooldown - time.Since(lastUsed); the error
\* carries remaining.Round(time.Minute).
Remaining(p) ==
    /\ pc[p] = "remaining"
    /\ remaining' = [remaining EXCEPT ![p] =
                        Round(cooldown - Since(lastUsed[p]), Minute)]
    /\ Return(p, "CooldownActive")
    /\ UNCHANGED <<now, usedAddresses, mu, ledger, toAddress, history, calls>>

Called(p, op) == calls' = [calls EXCEPT ![p] = Append(@, op)]

\* Lines 134-137: f.client.PendingNonceAt
PendingNonceAt(p, ok) ==
    /\ pc[p] = "nonce"
    /\ Called(p, "nonce")
    /\ IF ok
       THEN /\ SetFrame(p, lastUsed[p], exists[p], pendingNonce, checkTime[p])
            /\ Goto(p, "gasprice")
       ELSE Return(p, "NonceFetchFailed")
    /\ UNCHANGED <<now, usedAddresses, mu, ledger, toAddress, remaining, history>>

\* Lines 140-143: f.client.SuggestGasPrice
SuggestGasPrice(p, ok) ==
    /\ pc[p] = "gasprice"
    /\ Called(p, "gasprice")
    /\ IF ok
       THEN Goto(p, "estimate") /\ UNCHANGED frame
       ELSE Return(p, "GasPriceFetchFailed")
    /\ UNCHANGED <<now, usedAddresses, mu, ledger, toAddress, remaining, history>>

\* A gas estimate whose error is dropped: the call goes on to sign.
EstimateGasIgnoresError(p, ok) ==
    /\ pc[p] = "estimate"
    /\ Called(p, "estimate")
    /\ Goto(p, "sign") /\ UNCHANGED frame
    /\ UNCHANGED <<now, usedAddresses, mu, ledger, toAddress, remaining, history>>

\* Lines 146-155: f.client.EstimateGas
EstimateGas(p, ok) ==
    /\ pc[p] = "estimate"
    /\ Called(p, "estimate")
    /\ IF ok
       THEN Goto(p, "sign") /\ UNCHANGED frame
       ELSE Return(p, "GasEstimateFailed")
    /\ UNCHANGED <<now, usedAddresses, mu, ledger, toAddress, remaining, history>>

\* Lines 158-171: types.NewTransaction, types.SignTx
SignTx(p, ok) ==
    /\ pc[p] = "sign"
    /\ IF ok
       THEN Goto(p, "send") /\ UNCHANGED frame
       ELSE Return(p, "SigningFailed")
    /\ UNCHANGED <<now, usedAddresses, mu, ledger, toAddress, remaining, history, calls>>

\* A submission that marks the address as used before it hears from the node.
SendTransactionRecordsFirst(p, ok) ==
    /\ pc[p] = "send"
    /\ Called(p, "send")
    /\ usedAddresses' = [a \in DOMAIN usedAddresses \cup {toAddress[p]} |->
                            IF a = toAddress[p] THEN now ELSE usedAddresses[a]]
    /\ IF ok
       THEN /\ submitted' = submitted \cup {Tx(p)}
            /\ pendingNonce' = IF nonce[p] = pendingNonce THEN pendingNonce + 1
                               ELSE pendingNonce
            /\ Goto(p, "lock")
            /\ UNCHANGED frame
       ELSE /\ UNCHANGED ledger
            /\ Return(p, "SubmissionFailed")
    /\ UNCHANGED <<now, mu, toAddress, remaining, history>>

\* A submission that sends again when the node answers with an error.
SendTransactionRetries(p, ok) ==
    /\ pc[p] = "send"
    /\ Called(p, "send")
    /\ IF ok
       THEN /\ submitted' = submitted \cup {Tx(p)}
            /\ pendingNonce' = IF nonce[p] = pendingNonce THEN pendingNonce + 1
                               ELSE pendingNonce
            /\ Goto(p, "lock")
       ELSE /\ UNCHANGED ledger
            /\ Len(calls[p]) < 5
            /\ Goto(p, "send")
    /\ UNCHANGED <<now, usedAddresses, mu, toAddress, remaining, frame, history>>

\* Lines 174-177: f.client.SendTransaction. The node accepts the transaction
\* (taking the next nonce, or replacing a pending one of the same nonce) or
\* answers with an error.
SendTransaction(p, ok) ==
    /\ pc[p] = "send"
    /\ Called(p, "send")
    /\ IF ok
       THEN /\ submitted' = submitted \cup {Tx(p)}
            /\ pendingNonce' = IF nonce[p] = pendingNonce THEN pendingNonce + 1
                               ELSE pendingNonce
            /\ Goto(p, "lock")
            /\ UNCHANGED frame
       ELSE /\ UNCHANGED ledger
            /\ Return(p, "SubmissionFailed")
    /\ UNCHANGED <<now, usedAddresses, mu, toAddress, remaining, history>>

\* Line 180, f.mu.Lock() while requests hold f.mu for reading
\* (sync.RWMutex.Lock: the call takes the writers' mutex, turns new readers
\* away and sleeps until the readers it found have left).
LockWait(p) ==
    /\ pc[p] = "lock"
    /\ writer = NoRequest
    /\ readers # {}
    /\ writer' = p
    /\ UNCHANGED <<now, usedAddresses, readers, blocked, ledger, pc, toAddress,
                   remaining, frame, result, response, history, calls>>

\* A write lock that is granted while readers hold the lock.
LockDespiteReaders(p) ==
    /\ pc[p] = "lock"
    /\ writer \in {NoRequest, p}
    /\ writer' = p
    /\ Goto(p, "write")
    /\ UNCHANGED <<now, usedAddresses, readers, blocked, ledger, toAddress, remaining,
                   frame, history, calls>>

\* Line 180: f.mu.Lock() returns, once no other writer has f.mu and no reader
\* holds it.
Lock(p) ==
    /\ pc[p] = "lock"
    /\ writer \in {NoRequest, p}
    /\ readers = {}
    /\ writer' = p
    /\ Goto(p, "write")
    /\ UNCHANGED <<now, usedAddresses, readers, blocked, ledger, toAddress, remaining,
                   frame, history, calls>>

\* A record that stores the time of the eligibility check instead of time.Now().
StampAtCheck(p) == checkTime[p]

\* time.Now() of line 181.
Stamp(p) == now

\* A call that returns the transaction without recording the address.
RecordNothing(p) ==
    /\ pc[p] = "write"
    /\ writer = p
    /\ writer' = NoRequest
    /\ readers' = readers \cup blocked
    /\ blocked' = {}
    /\ Return(p, "ok")
    /\ UNCHANGED <<now, usedAddresses, ledger, toAddress, remaining, history, calls>>

\* Lines 181-184: f.usedAddresses[toAddress] = time.Now(); f.mu.Unlock(); return.
\* Unlock hands the read lock to the calls that slept in RLock.
Record(p) ==
    /\ pc[p] = "write"
    /\ writer = p
    /\ LET k == TableKey(toAddress[p]) IN
        usedAddresses' = [a \in DOMAIN usedAddresses \cup {k} |->
                            IF a = k THEN Stamp(p) ELSE usedAddresses[a]]
    /\ writer' = NoRequest
    /\ readers' = readers \cup blocked
    /\ blocked' = {}
    /\ Return(p, "ok")
    /\ UNCHANGED <<now, ledger, toAddress, remaining, history, calls>>

Step(p) ==
    \/ BadRequest(p)
    \/ \E a \in Inputs : Validate(p, a)
    \/ RLockWait(p)
    \/ RLock(p)
    \/ ReadTable(p)
    \/ Check(p)
    \/ Remaining(p)
    \/ \E ok \in BOOLEAN : PendingNonceAt(p, ok)
    \/ \E ok \in BOOLEAN : SuggestGasPrice(p, ok)
    \/ \E ok \in BOOLEAN : EstimateGas(p, ok)
    \/ \E ok \in BOOLEAN : SignTx(p, ok)
    \/ \E ok \in BOOLEAN : SendTransaction(p, ok)
    \/ LockWait(p)
    \/ Lock(p)
    \/ Record(p)

Next ==
    \/ Tick
    \/ \E p \in Requests : Step(p)

Spec == Init /\ [][Next]_vars

\* What the Go scheduler guarantees: a goroutine that can take a step of its
\* own (locking, reading, comparing, signing, writing) eventually takes it.
\* Nothing makes the ledger node answer: the calls are made with
\* context.Background() (lines 134, 140, 147, 174), which carries no deadline.
OwnStep(p) ==
    \/ RLockWait(p)
    \/ RLock(p)
    \/ ReadTable(p)
    \/ Check(p)
    \/ Remaining(p)
    \/ \E ok \in BOOLEAN : SignTx(p, ok)
    \/ LockWait(p)
    \/ Lock(p)
    \/ Record(p)

\* f.mu.Lock() of line 180 entering the writers' mutex of the RWMutex. A
\* sync.Mutex hands itself to a caller that has waited (starvation mode), so
\* a call that finds the mutex free again and again is not passed over for
\* ever.
EnterLock(p) == LockWait(p) \/ Lock(p)

FairSpec ==
    Spec /\ \A p \in Requests : WF_vars(OwnStep(p)) /\ SF_vars(EnterLock(p))

\* ----------------------------------------------- one request at a time
\* Every other handler is outside SendTokens.
Alone(p) == \A q \in Requests \ {p} : pc[q] \in {"idle", "done"}

\* Requests arrive one after the other: a request is taken, and served, only
\* while no other call is running.
SeqNext ==
    \/ Tick
    \/ \E p \in Requests : Alone(p) /\ Step(p)

SeqSpec == Init /\ [][SeqNext]_vars

\* ---------------------------------------------------------------- startup
DecimalDigits == {LowerHex[i] : i \in 1..10}

\* a < b for two numerals of the same length, most significant digit first.
DigitsLess(a, b) ==
    \E i \in 1..Len(a) :
        /\ HexValue[a[i]] < HexValue[b[i]]
        /\ \A j \in 1..(i - 1) : HexValue[a[j]] = HexValue[b[j]]

\* secp256k1N of go-ethereum's crypto package, the order of the curve:
\* fffffffffffffffffffffffffffffffe baaedce6af48a03bbfd25e8cd0364141
Secp256k1N ==
    Rep("f", 31) \o <<"e">> \o
    <<"b","a","a","e","d","c","e","6","a","f","4","8","a","0","3","b",
      "b","f","d","2","5","e","8","c","d","0","3","6","4","1","4","1">>

\* crypto.HexToECDSA(s) returns no error, line 68: hex.DecodeString takes an
\* even number of hexadecimal digits and no prefix; ToECDSA takes a key D of
\* exactly 32 bytes with D < secp256k1N and D > 0.
HexToECDSAOk(s) ==
    /\ Len(s) % 2 = 0
    /\ \A i \in 1..Len(s) : isHexCharacter(s[i])
    /\ 8 * (Len(s) \div 2) = 256
    /\ DigitsLess(s, Secp256k1N)
    /\ \E i \in 1..Len(s) : s[i] # "0"

\* A decimal numeral without its optional sign.
Unsigned(s) == IF s # <<>> /\ s[1] \in {"+", "-"} THEN Tail(s) ELSE s

\* What strconv.Atoi (line 101) and big.Int.SetString(s, 10) (line 91) take: an
\* optional sign and at least one decimal digit, nothing else.
IsDecimal(s) ==
    LET d == Unsigned(s)
    IN  d # <<>> /\ \A i \in 1..Len(d) : d[i] \in DecimalDigits

RECURSIVE DecimalValue(_)
DecimalValue(d) ==
    IF d = <<>> THEN 0
    ELSE 10 * DecimalValue(SubSeq(d, 1, Len(d) - 1)) + HexValue[d[Len(d)]]

\* A numeral without its leading zeros.
RECURSIVE Significant(_)
Significant(d) == IF d # <<>> /\ d[1] = "0" THEN Significant(Tail(d)) ELSE d

\* 1<<63 - 1 and 1<<63, the largest magnitudes of a positive and of a
\* negative int (strconv.IntSize is 64 where the service is built).
MaxInt == <<"9","2","2","3","3","7","2","0","3","6","8","5","4","7","7","5","8","0","7">>
MinIntMagnitude ==
    <<"9","2","2","3","3","7","2","0","3","6","8","5","4","7","7","5","8","0","8">>

\* strconv.Atoi returns no range error: the value of s fits an int.
InIntRange(s) ==
    LET d == Significant(Unsigned(s))
        limit == IF s[1] = "-" THEN MinIntMagnitude ELSE MaxInt
    IN  \/ Len(d) < Len(limit)
        \/ Len(d) = Len(limit) /\ ~DigitsLess(limit, d)

\* strconv.Atoi(s), line 101: a syntax error for anything but an optional
\* sign and decimal digits, a range error for a value that does not fit an
\* int, the value otherwise. An int is wider than the integers at hand, so
\* the value is kept as its sign and the numeral of its magnitude.
Atoi(s) ==
    LET ok == IsDecimal(s) /\ InIntRange(s)
        mag == IF ok THEN Significant(Unsigned(s)) ELSE <<>>
    IN  [ok |-> ok,
         value |-> [neg |-> ok /\ s[1] = "-" /\ mag # <<>>, mag |-> mag]]

\* A numeral filled up with zeros on the left to n digits.
Pad(d, n) == [i \in 1..(n - Len(d)) |-> "0"] \o d

\* a < b for two numerals of any length.
NumeralLess(a, b) ==
    LET n == IF Len(a) > Len(b) THEN Len(a) ELSE Len(b)
    IN  DigitsLess(Pad(a, n), Pad(b, n))

RECURSIVE MinusDigits(_, _, _, _)
MinusDigits(x, y, i, borrow) ==
    IF i = 0 THEN <<>>
    ELSE LET t == HexValue[x[i]] - HexValue[y[i]] - borrow
         IN  MinusDigits(x, y, i - 1, IF t < 0 THEN 1 ELSE 0)
                 \o <<LowerHex[(IF t < 0 THEN t + 10 ELSE t) + 1]>>

\* a - b for numerals with a >= b.
NumeralMinus(a, b) == Significant(MinusDigits(a, Pad(b, Len(a)), Len(a), 0))

RECURSIVE TimesDigits(_, _, _, _)
TimesDigits(x, k, i, carry) ==
    IF i = 0 THEN (IF carry = 0 THEN <<>> ELSE <<LowerHex[carry + 1]>>)
    ELSE LET t == HexValue[x[i]] * k + carry
         IN  TimesDigits(x, k, i - 1, t \div 10) \o <<LowerHex[(t % 10) + 1]>>

\* a * k for a numeral a and a factor k of one digit.
NumeralTimes(a, k) == TimesDigits(a, k, Len(a), 0)

\* 1<<64, the number of values of an int64.
TwoTo64 ==
    <<"1","8","4","4","6","7","4","4","0","7","3","7","0","9","5","5","1","6","1","6">>

RECURSIVE Below64Bits(_)
Below64Bits(r) ==
    IF NumeralLess(r, TwoTo64) THEN r ELSE Below64Bits(NumeralMinus(r, TwoTo64))

\* The numeral d modulo 1<<64, by long division from digit i on; r is the
\* remainder of the digits before i.
RECURSIVE ModTwoTo64(_, _, _)
ModTwoTo64(d, i, r) ==
    IF i > Len(d) THEN r
    ELSE IF r = <<>> /\ d[i] = "0" THEN ModTwoTo64(d, i + 1, r)
    ELSE ModTwoTo64(d, i + 1, Below64Bits(r \o <<d[i]>>))

\* int64(v) * int64(time.Hour) as Go computes it: the low 64 bits of the
\* product, read as a two's complement number of nanoseconds.
TimesHour(v) ==
    LET product == NumeralTimes(NumeralTimes(v.mag, 6), 6) \o Rep("0", 11)
        low == ModTwoTo64(product, 1, <<>>)
        bits == IF v.neg /\ low # <<>> THEN NumeralMinus(TwoTo64, low) ELSE low
    IN  IF NumeralLess(bits, MinIntMagnitude)
        THEN [neg |-> FALSE, mag |-> bits]
        ELSE [neg |-> TRUE, mag |-> NumeralMinus(TwoTo64, bits)]

\* A time.Duration in the units of the model. The clock reads whole
\* multiples of ten seconds, so a duration that is not one compares with a
\* time.Since and rounds to the minute exactly as the odd number of units
\* between its two neighbours does.
Duration(ns) ==
    LET n == Len(ns.mag)
        tens == DecimalValue(SubSeq(ns.mag, 1, n - 10))
        between == \E i \in 1..n : i > n - 10 /\ ns.mag[i] # "0"
        units == 2 * tens + (IF between THEN 1 ELSE 0)
    IN  IF ns.neg THEN 0 - units ELSE units

\* os.Getenv with the default of lines 88-90 and 98-100: an unset variable
\* reads as the empty string and is replaced.
OrDefault(s, d) == IF s = NoString THEN d ELSE s

DefaultAmount == <<"1">> \o Rep("0", 18)
DefaultCooldownHours == <<"2", "4">>

\* The decimal numeral of a number below ten.
Numeral(n) == <<LowerHex[n + 1]>>

GoodKey == Rep("1", 64)

\* The largest private key there is, secp256k1N - 1, in capitals.
LargestKey ==
    [i \in 1..64 |-> IF i = 64 THEN "0"
                     ELSE UpperHex[HexValue[Secp256k1N[i]] + 1]]

\* The least COOLDOWN_HOURS whose product with time.Hour leaves an int64.
FirstWrappingHours == <<"2","5","6","2","0","4","8">>

\* A configuration NewFaucet returns a faucet for.
GoodConfig ==
    [dialOk |-> TRUE, privateKeyHex |-> GoodKey, chainOk |-> TRUE,
     amountStr |-> NoString, cooldownStr |-> NoString]

\* The environment and the node, as NewFaucet may meet them: keys that are
\* unset, good, too short, zero, prefixed, the curve order and above it;
\* amounts and cooldowns that are unset, decimal (small, beyond 64 bits, and
\* a cooldown whose duration wraps) and not decimal.
Settings ==
    [dialOk : BOOLEAN,
     privateKeyHex : {NoString, GoodKey, LargestKey, Rep("1", 62), Rep("0", 64),
                      <<"0", "x">> \o GoodKey, Secp256k1N, Rep("f", 64)},
     chainOk : BOOLEAN,
     amountStr : {NoString, <<"5">>, <<"-", "5">>, <<"1", "e", "9">>, Rep("9", 30)},
     cooldownStr : {NoString, Numeral(CooldownHours), <<"0", "0">> \o Numeral(CooldownHours),
                    <<"2", "h">>, <<"1", ".", "5">>, MinIntMagnitude, Rep("9", 20),
                    <<"-">> \o Rep("9", 20), FirstWrappingHours}]

\* The configurations drawn: those in which at most MaxSettings of the five
\* settings are not as in GoodConfig.
Configs ==
    {cfg \in Settings :
        Cardinality({f \in DOMAIN cfg : cfg[f] # GoodConfig[f]}) <= MaxSettings}

\* A NewFaucet that takes any private key that is set.
NewFaucetErrorAnyKey(cfg) ==
    IF ~cfg.dialOk THEN "failed to connect to Ethereum network: %v"
    ELSE IF cfg.privateKeyHex = NoString
    THEN "PRIVATE_KEY environment variable is required"
    ELSE IF ~cfg.chainOk THEN "failed to get chain ID: %v"
    ELSE IF ~IsDecimal(OrDefault(cfg.amountStr, DefaultAmount))
    THEN "invalid FAUCET_AMOUNT"
    ELSE IF ~Atoi(OrDefault(cfg.cooldownStr, DefaultCooldownHours)).ok
    THEN "invalid COOLDOWN_HOURS"
    ELSE "none"

\* Lines 57-104: the error NewFaucet returns, "none" when it returns a faucet.
NewFaucetError(cfg) ==
    IF ~cfg.dialOk THEN "failed to connect to Ethereum network: %v"
    ELSE IF cfg.privateKeyHex = NoString
    THEN "PRIVATE_KEY environment variable is required"
    ELSE IF ~HexToECDSAOk(cfg.privateKeyHex) THEN "invalid private key: %v"
    ELSE IF ~cfg.chainOk THEN "failed to get chain ID: %v"
    ELSE IF ~IsDecimal(OrDefault(cfg.amountStr, DefaultAmount))
    THEN "invalid FAUCET_AMOUNT"
    ELSE IF ~Atoi(OrDefault(cfg.cooldownStr, DefaultCooldownHours)).ok
    THEN "invalid COOLDOWN_HOURS"
    ELSE "none"

requestState == <<now, usedAddresses, mu, ledger, pc, toAddress, frame, result,
              remaining, calls, started, response>>

\* Lines 196-199: main builds the faucet; log.Fatalf ends the process when
\* NewFaucet returns an error.
NewFaucet(cfg) ==
    /\ phase = "new"
    /\ LET err == NewFaucetError(cfg) IN
        /\ startErr' = err
        /\ IF err = "none"
           THEN /\ phase' = "created"
                /\ cooldown' =
                      Duration(TimesHour(
                          Atoi(OrDefault(cfg.cooldownStr, DefaultCooldownHours)).value))
           ELSE /\ phase' = "fatal"
                /\ UNCHANGED cooldown
    /\ UNCHANGED <<requestState, balanceLog>>

\* Lines 202-208: the balance is logged, or a warning when BalanceAt fails.
GetBalance(ok) ==
    /\ phase = "created"
    /\ balanceLog' = IF ok THEN "balance" ELSE "warning"
    /\ phase' = "ready"
    /\ UNCHANGED <<requestState, startErr, cooldown>>

\* Lines 210-249: the route is registered and r.Run listens; it returns, and
\* log.Fatalf ends the process, when the port cannot be bound.
Run(ok) ==
    /\ phase = "ready"
    /\ phase' = IF ok THEN "serving" ELSE "fatal"
    /\ UNCHANGED <<requestState, startErr, balanceLog, cooldown>>

\* The process at the first line of main.
StartInit ==
    /\ Quiet
    /\ phase = "new"
    /\ startErr = "none"
    /\ balanceLog = "none"
    /\ cooldown = CooldownHours * Hour

StartNext ==
    \/ \E cfg \in Configs : NewFaucet(cfg)
    \/ \E ok \in BOOLEAN : GetBalance(ok)
    \/ \E ok \in BOOLEAN : Run(ok)
    \/ SeqNext

\* main from its first line on, then requests served one at a time.
StartSpec == StartInit /\ [][StartNext]_vars

\* ------------------------------------------------------------------ claims
InFlight(p) == pc[p] \notin {"idle", "done"}

LedgerFailures == {"NonceFetchFailed", "GasPriceFetchFailed", "GasEstimateFailed",
                   "SigningFailed", "SubmissionFailed"}

\* C1. Idempotent rejection: a call for A that found the entry T when it
\* looked A up, and whose comparison runs at a time T' with T' - T < cooldown,
\* goes on to fail with the cooldown error; neither step makes a ledger call
\* or changes the table, and the entry the call found is still T.
C1_IdempotentRejection ==
    [][\A p \in Requests :
        /\ (Check(p) /\ exists[p] /\ now - lastUsed[p] < cooldown)
              => /\ pc'[p] = "remaining"
                 /\ calls'[p] = <<>>
                 /\ usedAddresses' = usedAddresses
                 /\ ledger' = ledger
        /\ pc[p] = "remaining"
              => /\ calls[p] = <<>>
                 /\ Remaining(p) => /\ result'[p] = "CooldownActive"
                                    /\ calls'[p] = <<>>
                                    /\ usedAddresses' = usedAddresses
                                    /\ ledger' = ledger]_vars

\* A call was rejected inside the cooldown window of an entry that is still
\* in the table, unchanged.
C1_Witness ==
    \E p \in Requests :
        /\ pc[p] = "done"
        /\ result[p] = "CooldownActive"
        /\ calls[p] = <<>>
        /\ TableKey(toAddress[p]) \in DOMAIN usedAddresses
        /\ now - usedAddresses[TableKey(toAddress[p])] < cooldown

\* C2 as stated: the timestamp recorded by an accepted request is the time
\* T' at which its eligibility check ran.
C2_RecordsCheckTime ==
    [][\A p \in Requests :
        Record(p) => usedAddresses'[TableKey(toAddress[p])] = checkTime[p]]_vars

\* C2, amended. A call for A that found the entry T and whose comparison runs
\* at T' >= T + cooldown passes the check; from then on only a failing ledger
\* call or signature ends it with an error, and when it records, A's entry
\* becomes the clock reading of the record step, which is at or after T'.
C2_EligibleAfterExpiry ==
    [][\A p \in Requests :
        /\ (Check(p) /\ exists[p] /\ now - lastUsed[p] >= cooldown) => pc'[p] = "nonce"
        /\ (pc[p] \in {"nonce", "gasprice", "estimate", "sign", "send"} /\ pc'[p] = "done")
              => result'[p] \in LedgerFailures
        /\ (\E ok \in BOOLEAN : PendingNonceAt(p, ok)) /\ pc'[p] # "done" => pc'[p] = "gasprice"
        /\ (\E ok \in BOOLEAN : SuggestGasPrice(p, ok)) /\ pc'[p] # "done" => pc'[p] = "estimate"
        /\ (\E ok \in BOOLEAN : EstimateGas(p, ok)) /\ pc'[p] # "done" => pc'[p] = "sign"
        /\ (\E ok \in BOOLEAN : SignTx(p, ok)) /\ pc'[p] # "done" => pc'[p] = "send"
        /\ (\E ok \in BOOLEAN : SendTransaction(p, ok)) /\ pc'[p] # "done" => pc'[p] = "lock"
        /\ Lock(p) => pc'[p] = "write"
        /\ Record(p) => /\ result'[p] = "ok"
                        /\ usedAddresses'[TableKey(toAddress[p])] = now
                        /\ now >= checkTime[p]]_vars

\* A request made after the cooldown of the entry it found has expired was
\* accepted, its transaction went out, and the clock moved on before the record.
C2_Witness ==
    \E p \in Requests :
        /\ pc[p] = "write"
        /\ exists[p]
        /\ checkTime[p] - lastUsed[p] >= cooldown
        /\ calls[p] = <<"nonce", "gasprice", "estimate", "send">>
        /\ now > checkTime[p]

\* C3. Cooldown invariant: a timestamp recorded for an address that already
\* has an entry T is at least T + cooldown.
C3_CooldownInvariant ==
    [][\A p \in Requests :
        (Record(p) /\ TableKey(toAddress[p]) \in DOMAIN usedAddresses)
            => usedAddresses'[TableKey(toAddress[p])]
                  >= usedAddresses[TableKey(toAddress[p])] + cooldown]_vars

\* The request has built and signed its transaction.
Built(p) == pc[p] \in {"send", "lock", "write"}

\* The node has accepted the request's transaction.
Sent(p) == pc[p] \in {"lock", "write"}

\* C4. Nonce uniqueness: two eligible requests in flight together for
\* distinct fresh addresses never build transactions with the same nonce.
C4_NonceUniqueness ==
    \A p, q \in Requests :
        (/\ p # q
         /\ Built(p) /\ Built(q)
         /\ ~exists[p] /\ ~exists[q]
         /\ HexToAddress(toAddress[p]) # HexToAddress(toAddress[q]))
            => nonce[p] # nonce[q]

\* C5. Same-address race: a record that lands inside the cooldown window of
\* the entry already in the table is the record of a request whose
\* eligibility check did not see that entry: the check and the record are
\* separate steps, and the entry was written in between.
C5_SameAddressRace ==
    [][\A p \in Requests :
        (/\ Record(p)
         /\ TableKey(toAddress[p]) \in DOMAIN usedAddresses
         /\ now - usedAddresses[TableKey(toAddress[p])] < cooldown)
            => ~(exists[p] /\ lastUsed[p] = usedAddresses[TableKey(toAddress[p])])]_vars

\* Two requests for the same fresh address both passed the eligibility check
\* before either wrote the table, and the node accepted a transaction of
\* each, all inside one cooldown window.
C5_Witness ==
    \E p, q \in Requests :
        /\ p # q
        /\ toAddress[p] = toAddress[q]
        /\ Sent(p) /\ Sent(q)
        /\ ~exists[p] /\ ~exists[q]
        /\ TableKey(toAddress[p]) \notin DOMAIN usedAddresses
        /\ nonce[p] # nonce[q]
        /\ {Tx(p), Tx(q)} \subseteq submitted
        /\ now < cooldown

\* C6. No side effect on failure: the step that ends a call with a failed
\* nonce fetch, gas price fetch, gas estimate, signature or submission leaves
\* the cooldown table as it was, and the table changes only in the step that
\* returns success.
C6_NoSideEffectOnFailure ==
    [][/\ \A p \in Requests :
            (pc[p] # "done" /\ pc'[p] = "done" /\ result'[p] \in LedgerFailures)
                => usedAddresses' = usedAddresses
       /\ usedAddresses' # usedAddresses
            => \E p \in Requests : pc[p] = "write" /\ pc'[p] = "done" /\ result'[p] = "ok"]_vars

\* A submission failed, the table has no entry for the address, and the
\* next request for it passed the eligibility check.
C6_Witness ==
    \E p, q \in Requests :
        /\ p # q
        /\ pc[p] = "done"
        /\ result[p] = "SubmissionFailed"
        /\ calls[p] = <<"nonce", "gasprice", "estimate", "send">>
        /\ usedAddresses = <<>>
        /\ toAddress[q] = toAddress[p]
        /\ pc[q] = "nonce"

\* C7. The table is keyed by the account: request strings that denote the
\* same account share one entry.
C7_OneEntryPerAccount ==
    \A s, t \in DOMAIN usedAddresses :
        HexToAddress(s) = HexToAddress(t) => s = t

HexDigits == {"0","1","2","3","4","5","6","7","8","9",
              "a","b","c","d","e","f","A","B","C","D","E","F"}

\* The three defects C8 names, of a string SendTokens is called with.
WrongLength(s) == Len(StripPrefix(s)) # 2 * AddressLength
InvalidCharacter(s) == \E i \in 1..Len(StripPrefix(s)) : StripPrefix(s)[i] \notin HexDigits
MissingPrefix(s) == ~has0xPrefix(s)

\* Malformed in the sense of C8: wrong length, an invalid character, or no
\* 0x prefix.
MalformedAsClaimed(s) == WrongLength(s) \/ InvalidCharacter(s) \/ MissingPrefix(s)

\* Malformed for the code: after an optional 0x or 0X prefix, anything but
\* forty hexadecimal digits.
Malformed(s) == WrongLength(s) \/ InvalidCharacter(s)

\* C8 as stated: a SendTokens call with a string of the wrong length, with an
\* invalid character or without the 0x prefix returns the invalid-address
\* error in its first step, with no ledger call made and the lock and the
\* table left alone.
C8_PrefixRequired ==
    [][\A p \in Requests : \A a \in Inputs :
          (Validate(p, a) /\ MalformedAsClaimed(a))
              => /\ pc'[p] = "done"
                 /\ result'[p] = "InvalidAddress"
                 /\ calls'[p] = <<>>
                 /\ UNCHANGED <<usedAddresses, mu, ledger>>]_vars

\* C8, amended. A SendTokens call with a string that, after an optional 0x or
\* 0X prefix, is not forty hexadecimal digits returns the invalid-address
\* error in its first step: no ledger call is made, the lock is not taken and
\* the table is neither read nor changed. The prefix itself is not required:
\* a call with forty hexadecimal digits goes on to the cooldown check whether
\* or not the prefix is there, and the invalid-address error is returned for
\* no other string.
C8_ValidationFirst ==
    [][\A p \in Requests :
        /\ \A a \in Inputs :
              /\ (Validate(p, a) /\ Malformed(a))
                    => /\ pc'[p] = "done"
                       /\ result'[p] = "InvalidAddress"
                       /\ calls'[p] = <<>>
                       /\ UNCHANGED <<usedAddresses, mu, ledger>>
              /\ (Validate(p, a) /\ ~Malformed(a))
                    => pc'[p] = "rlock" /\ result'[p] = "none"
        /\ result'[p] = "InvalidAddress"
              => calls'[p] = <<>> /\ Malformed(toAddress'[p]) /\ ~exists'[p]]_vars

\* A call with forty hexadecimal digits and no 0x prefix was let through and
\* paid out, its string now a key of the table, and after it a call with a
\* string that is too short or has an invalid character was turned away.
C8_Witness ==
    \E p, q \in Requests :
        /\ toAddress[p] = AddrBare
        /\ MissingPrefix(toAddress[p]) /\ ~Malformed(toAddress[p])
        /\ pc[p] = "done" /\ result[p] = "ok"
        /\ AddrBare \in DOMAIN usedAddresses
        /\ pc[q] = "done"
        /\ result[q] = "InvalidAddress"
        /\ toAddress[q] \in {BadShort, BadChar}
        /\ calls[q] = <<>>

SendCount(p) == Cardinality({i \in DOMAIN calls[p] : calls[p][i] = "send"})

\* C9. A call hands at most one transaction to the node: exactly one when it
\* returns success, none when it fails at validation, eligibility, nonce
\* fetch, gas price fetch, gas estimate or signing; the node holds no more
\* transactions than calls were made.
C9_AtMostOneSubmission ==
    /\ \A p \in Requests :
        /\ SendCount(p) <= 1
        /\ (pc[p] = "done" /\ result[p] = "ok") => SendCount(p) = 1
        /\ Sent(p) => SendCount(p) = 1 /\ Tx(p) \in submitted
        /\ (pc[p] = "done" /\ result[p] \in {"InvalidAddress", "CooldownActive",
                "NonceFetchFailed", "GasPriceFetchFailed", "GasEstimateFailed",
                "SigningFailed"}) => SendCount(p) = 0
    /\ Cardinality(submitted) <= started

\* One call returned success after its single submission, another failed at
\* signing without submitting.
C9_Witness ==
    \E p, q \in Requests :
        /\ pc[p] = "done" /\ result[p] = "ok" /\ SendCount(p) = 1
        /\ pc[q] = "done" /\ result[q] = "SigningFailed" /\ SendCount(q) = 0
        /\ Cardinality(submitted) = 1

\* C10. Every SendTokens call eventually returns, also when the node never
\* answers one of its calls.
C10_EveryCallReturns ==
    \A p \in Requests : InFlight(p) ~> (pc[p] = "done")

\* C11. A handler that has answered said success = true, with a transaction
\* hash, exactly when SendTokens returned a transaction without error; every
\* other answer has success = false, a message and no transaction hash, and
\* the status code agrees with success.
C11_ResponseMatchesOutcome ==
    \A p \in Requests :
        /\ pc[p] = "done"
              => /\ response[p].success <=> result[p] = "ok"
                 /\ response[p].success <=> response[p].tx_hash # NoString
                 /\ response[p].success <=> response[p].status = 200
                 /\ response[p].message # ""
                 /\ ~response[p].success
                        => response[p].status = 400 /\ response[p].tx_hash = NoString
        /\ pc[p] # "done" => response[p] = NoResponse

\* One request was answered with a transaction hash; another was answered
\* with a failure, its body unreadable or its submission refused.
C11_Witness ==
    \E p, q \in Requests :
        /\ pc[p] = "done" /\ result[p] = "ok" /\ response[p].tx_hash # NoString
        /\ pc[q] = "done" /\ ~response[q].success
        /\ response[q].message \in {"Invalid request format",
                                     "failed to send transaction: %v"}

\* A well-formed private key: 64 hexadecimal digits, in either case and
\* without a prefix, that denote a number from 1 to the order of secp256k1
\* less one.
WellFormedKey(k) ==
    /\ Len(k) = 64
    /\ \A i \in 1..Len(k) : k[i] \in HexDigits
    /\ k # Rep("0", 64)
    /\ LET n(i) == HexValue[Secp256k1N[i]]
           d(i) == HexValue[k[i]]
       IN  /\ \E i \in 1..64 : d(i) # n(i)
           /\ LET first == CHOOSE i \in 1..64 :
                              d(i) # n(i) /\ \A j \in 1..(i - 1) : d(j) = n(j)
               IN  d(first) < n(first)

\* A string that is a number for the parsers: an optional sign and decimal
\* digits.
Numeric(s) ==
    \E sign \in {<<>>, <<"+">>, <<"-">>} : \E n \in 1..Len(s) :
        /\ s = sign \o SubSeq(s, Len(sign) + 1, Len(s))
        /\ Len(s) = Len(sign) + n
        /\ \A i \in Len(sign) + 1..Len(s) : s[i] \in DecimalDigits

\* The number is one an int holds, -(1<<63) to 1<<63 - 1: its digits, filled
\* up with zeros on the left, do not come after the digits of the bound.
HeldByInt(s) ==
    LET neg == s[1] = "-"
        d == IF s[1] \in {"+", "-"} THEN Tail(s) ELSE s
        bound == IF neg THEN MinIntMagnitude ELSE MaxInt
        w == IF Len(d) > Len(bound) THEN Len(d) ELSE Len(bound)
        Fill(x, i) == IF i <= w - Len(x) THEN 0 ELSE HexValue[x[i - (w - Len(x))]]
    IN  \A i \in 1..w :
            (\A j \in 1..(i - 1) : Fill(d, j) = Fill(bound, j))
                => Fill(d, i) <= Fill(bound, i)

\* The configurations of the claim: the key is present and well formed, the
\* node was reached, the chain ID was fetched, and the amount and the
\* cooldown, where set, parse as numbers (the amount into a big.Int of any
\* size, the cooldown into an int).
Initializable(cfg) ==
    /\ cfg.dialOk
    /\ cfg.privateKeyHex # NoString /\ WellFormedKey(cfg.privateKeyHex)
    /\ cfg.chainOk
    /\ cfg.amountStr = NoString \/ Numeric(cfg.amountStr)
    /\ cfg.cooldownStr = NoString
          \/ (Numeric(cfg.cooldownStr) /\ HeldByInt(cfg.cooldownStr))

\* A request enters its handler in this step.
Accepted == started' = started + 1

\* C12, as stated. The service accepts requests if and only if initialization
\* succeeded: a process that ended before serving is one whose NewFaucet
\* returned an error, a process that serves is one whose NewFaucet returned
\* none.
C12_ServesIffInitialized ==
    /\ phase = "serving" => startErr = "none"
    /\ phase = "fatal" => startErr # "none"

\* C12, amended. NewFaucet returns a faucet exactly for the configurations
\* the claim lists and ends the process otherwise; the balance query lets
\* main go on whether it fails or not; the service then accepts requests
\* exactly when r.Run could bind its port, and no request is accepted in any
\* other phase.
C12_StartupContract ==
    [][/\ phase = "new" =>
            \A cfg \in Configs :
                NewFaucet(cfg) => /\ phase' = "created" <=> Initializable(cfg)
                                  /\ phase' = "fatal" <=> ~Initializable(cfg)
                                  /\ startErr' = "none" <=> Initializable(cfg)
       /\ \A ok \in BOOLEAN : GetBalance(ok) => phase' = "ready"
       /\ \A ok \in BOOLEAN : Run(ok) => (phase' = "serving" <=> ok)
       /\ phase' = "serving" => startErr' = "none" /\ balanceLog' # "none"
       /\ Accepted => phase = "serving"]_vars

\* The balance query failed at startup and the service answered a request.
C12_Witness ==
    /\ phase = "serving"
    /\ balanceLog = "warning"
    /\ \E p \in Requests : pc[p] = "done" /\ result[p] = "ok"

\* The node acknowledged a transaction to the account that k names.
SubmittedTo(k, txs) == \E t \in txs : t.to = AccountOf[k]

\* C13. Every address in the cooldown table has had a transaction to it
\* acknowledged by the node, and had it before the entry was written; an entry
\* once present is never removed.
C13_EntriesFollowSubmission ==
    [][/\ \A k \in DOMAIN usedAddresses' : SubmittedTo(k, submitted')
       /\ \A k \in DOMAIN usedAddresses' :
              k \notin DOMAIN usedAddresses => SubmittedTo(k, submitted)
       /\ \A p \in Requests : Record(p) => SubmittedTo(toAddress[p], submitted)
       /\ DOMAIN usedAddresses \subseteq DOMAIN usedAddresses']_vars

\* The table holds the address of a request that was submitted, and none for
\* the address of a request whose submission the node refused.
C13_Witness ==
    /\ usedAddresses # <<>>
    /\ \E p \in Requests : /\ pc[p] = "done" /\ result[p] = "SubmissionFailed"
                           /\ toAddress[p] \notin DOMAIN usedAddresses

\* C14. Record before return: the step that returns success is the step that
\* writes the entry for the request string, stamped no earlier than the
\* call's eligibility check; a call that returned success has its address in
\* the table, a later lookup of that address finds the entry, and a check that
\* runs within the cooldown of the entry it found rejects the request.
C14_RecordBeforeReturn ==
    [][\A p \in Requests :
        /\ Record(p)
              => /\ result'[p] = "ok" /\ pc'[p] = "done"
                 /\ TableKey(toAddress[p]) \in DOMAIN usedAddresses'
                 /\ usedAddresses'[TableKey(toAddress[p])] >= checkTime[p]
        /\ (pc'[p] = "done" /\ result'[p] = "ok")
              => TableKey(toAddress'[p]) \in DOMAIN usedAddresses'
        /\ (ReadTable(p) /\ TableKey(toAddress[p]) \in DOMAIN usedAddresses)
              => /\ exists'[p]
                 /\ lastUsed'[p] = usedAddresses[TableKey(toAddress[p])]
        /\ (Check(p) /\ exists[p] /\ now - lastUsed[p] < cooldown)
              => pc'[p] = "remaining"]_vars

\* A call returned success for an address at a time later than its check, and
\* the next request for that address, read after the return, was rejected.
C14_Witness ==
    \E p, q \in Requests :
        /\ p # q
        /\ pc[p] = "done" /\ result[p] = "ok"
        /\ pc[q] = "done" /\ result[q] = "CooldownActive"
        /\ toAddress[q] = toAddress[p]
        /\ usedAddresses[TableKey(toAddress[p])] > 0
        /\ Cardinality(submitted) = 1

\* The steps of SendTokens in the order of the code: the positions a call may
\* move to from each position.
After ==
    [rlock |-> {"read"}, read |-> {"check"}, check |-> {"remaining", "nonce"},
     remaining |-> {"done"}, nonce |-> {"gasprice", "done"},
     gasprice |-> {"estimate", "done"}, estimate |-> {"sign", "done"},
     sign |-> {"send", "done"}, send |-> {"lock", "done"}, lock |-> {"write"},
     write |-> {"done"}]

\* The outcome of a call that ends at a position.
OutcomeAt ==
    [remaining |-> "CooldownActive", nonce |-> "NonceFetchFailed",
     gasprice |-> "GasPriceFetchFailed", estimate |-> "GasEstimateFailed",
     sign |-> "SigningFailed", send |-> "SubmissionFailed", write |-> "ok"]

LedgerCallOrder == <<"nonce", "gasprice", "estimate", "send">>

\* From the nonce fetch to the submission: the part of a call that waits for
\* the node (lines 133-177).
LedgerPart == {"nonce", "gasprice", "estimate", "sign", "send"}

\* C15. A call runs validate, eligibility check, nonce fetch, gas price
\* fetch, gas estimate, sign, submit, record in this order; a step that fails
\* ends the call with the error of that step, a step that succeeds hands over
\* to the next one, and a call that ended takes no further step.
C15_FixedStepOrder ==
    [][\A p \in Requests :
        <<pc[p], toAddress[p], calls[p], result[p]>>'
              # <<pc[p], toAddress[p], calls[p], result[p]>>
        => /\ \A a \in {toAddress'[p]} :
                 Validate(p, a) =>
                    IF IsHexAddress(a) THEN pc'[p] = "rlock"
                    ELSE pc'[p] = "done" /\ result'[p] = "InvalidAddress"
           /\ (InFlight(p) /\ pc'[p] # pc[p])
                 => /\ pc'[p] \in After[pc[p]]
                    /\ pc'[p] = "done" => result'[p] = OutcomeAt[pc[p]]
           /\ pc[p] \in LedgerPart =>
                 \A ok \in BOOLEAN :
                    (\/ PendingNonceAt(p, ok) \/ SuggestGasPrice(p, ok)
                     \/ EstimateGas(p, ok) \/ SignTx(p, ok) \/ SendTransaction(p, ok))
                        => (pc'[p] = "done" <=> ~ok)
           /\ calls'[p] = SubSeq(LedgerCallOrder, 1, Len(calls'[p]))
           /\ pc[p] = "done" => Accepted]_vars

\* A call ended at the gas estimate: it had fetched the nonce and the gas
\* price, and neither signed nor submitted anything.
C15_Witness ==
    \E p \in Requests :
        /\ pc[p] = "done" /\ result[p] = "GasEstimateFailed"
        /\ calls[p] = <<"nonce", "gasprice", "estimate">>
        /\ submitted = {}

\* C16. A request that is waiting for the node holds the table lock neither
\* for reading nor for writing, so another request that is at its lookup,
\* its eligibility check or its table write can take that step (acquiring
\* the lock included) while the first one waits, a request at its record
\* holds the write lock the record needs, and its ledger calls wait for the
\* node only.
C16_HangDoesNotBlock ==
    \A p \in Requests :
        pc[p] \in LedgerPart
           => /\ p \notin readers
              /\ writer # p
              /\ \A q \in Requests \ {p} :
                    /\ pc[q] = "rlock" => ENABLED RLock(q)
                    /\ pc[q] = "read" => ENABLED ReadTable(q)
                    /\ pc[q] = "check" => ENABLED Check(q)
                    /\ pc[q] = "remaining" => ENABLED Remaining(q)
                    /\ pc[q] = "lock" => ENABLED Lock(q)
                    /\ pc[q] = "write" => writer = q

\* One request still waits for its first ledger call; the other one, which
\* arrived later and asks for the same address, has had its transaction
\* submitted and its record written.
C16_Witness ==
    /\ pc[1] = "nonce"
    /\ pc[2] = "done" /\ result[2] = "ok"
    /\ toAddress[2] = toAddress[1]
    /\ started = 2

\* Where each request stands with f.mu: it holds the read lock only in the
\* RLock call that was handed the lock and at the lookup of line 125, and has
\* the writers' side only in the Lock call of line 180 and at the record of
\* line 181; while a request is at the record nobody holds the read lock and
\* nobody else is at the record; a request at the lookup holds the read lock,
\* together with any other request at the lookup.
LockExclusion ==
    /\ writer \in Requests \cup {NoRequest}
    /\ readers \subseteq Requests
    /\ blocked \subseteq Requests \ readers
    /\ \A p \in Requests :
          /\ pc[p] = "write" =>
                /\ writer = p
                /\ readers = {}
                /\ \A q \in Requests \ {p} : pc[q] \notin {"read", "write"}
          /\ pc[p] = "read" => p \in readers
          /\ p \in readers => pc[p] \in {"rlock", "read"}
          /\ p \in blocked => pc[p] = "rlock" /\ writer \in Requests \ {p}
          /\ writer = p => pc[p] \in {"lock", "write"}

\* C17. Lock discipline: in every reachable state the request at the record
\* of line 181 holds the write lock alone, with no reader and no other
\* writer, and requests at the lookup of line 125 share the read lock; every
\* read lock taken is released and every write lock taken is released; and a
\* request that calls RLock or Lock is granted the lock: no request waits
\* for ever at line 124 or at line 180.
C17_LockDiscipline ==
    /\ []LockExclusion
    /\ \A p \in Requests :
          /\ (pc[p] = "rlock") ~> (pc[p] = "read")
          /\ (p \in readers) ~> (p \notin readers)
          /\ (pc[p] = "lock") ~> (pc[p] = "write")
          /\ (writer = p) ~> (writer # p)

\* One request holds the write lock at the record of line 181 while the
\* other one, which called RLock in the meantime, sleeps until the Unlock.
C17_Witness ==
    \E p \in Requests :
        /\ pc[p] = "write" /\ writer = p
        /\ blocked = Requests \ {p}

\* C18. The remaining wait carried by the cooldown error is strictly greater
\* than zero and at most the cooldown, whether or not the clock advances
\* between the comparison of line 128 and the subtraction of line 129.
C18_RemainingIsPositive ==
    \A p \in Requests :
        (pc[p] = "done" /\ result[p] = "CooldownActive")
            => remaining[p] > 0 /\ remaining[p] <= cooldown

\* C19. With requests served strictly one at a time, a transaction to an
\* address is submitted, and the disbursement recorded, only when every
\* earlier record for that address is at least a cooldown old.
C19_SequentialCooldown ==
    [][\A p \in Requests :
          (Record(p) \/ SendTransaction(p, TRUE)) =>
              \A k \in DOMAIN usedAddresses :
                  AccountOf[k] = AccountOf[toAddress[p]]
                     => now >= usedAddresses[k] + cooldown]_vars

\* The same, for the earlier records made under the spelling of the request.
C19_SequentialCooldownPerSpelling ==
    [][\A p \in Requests :
          ((Record(p) \/ SendTransaction(p, TRUE))
              /\ TableKey(toAddress[p]) \in DOMAIN usedAddresses)
             => now >= usedAddresses[TableKey(toAddress[p])] + cooldown]_vars

\* C20. The timestamp recorded for an address never decreases: every write
\* stores the clock as read under the write lock, which is not earlier than
\* the entry it replaces, whatever the order in which the concurrent calls
\* made their checks.
C20_TimestampsNeverDecrease ==
    [][/\ \A k \in DOMAIN usedAddresses :
             k \in DOMAIN usedAddresses' /\ usedAddresses'[k] >= usedAddresses[k]
       /\ \A p \in Requests :
             Record(p) => usedAddresses'[TableKey(toAddress[p])] = now
       /\ \A k \in DOMAIN usedAddresses' : usedAddresses'[k] <= now']_vars

\* Two calls that ran inside one cooldown window both wrote the entry of one
\* address, the second write later than the start of the run.
C20_Witness ==
    /\ \A p \in Requests : pc[p] = "done" /\ result[p] = "ok"
    /\ toAddress[1] = toAddress[2]
    /\ now < cooldown
    /\ usedAddresses[TableKey(toAddress[1])] > 0

====
